---- MODULE Spec2Model ----
(***************************************************************************)
(* A model of rosbag2_cpp's SequentialReindexer                            *)
(* (rosbag2_cpp/src/rosbag2_cpp/reindexers/sequential_reindexer.cpp) and   *)
(* of the Reindexer facade declared after it.                              *)
(*                                                                         *)
(* The reindexer's fields are the variables; open(), reindex(), reset()    *)
(* and the destructors are the actions, and so is a call of                *)
(* details::resolve_relative_paths on its own.  The collaborators          *)
(* (metadata io, storage factory, file system, converter factory) are not  *)
(* part of the reindexer: what they answer to one call of open() is the    *)
(* input of that call.                                                     *)
(***************************************************************************)
EXTENDS Integers, Sequences, FiniteSets, TLC

VARIABLES
  storage_,               \* the backend handle, or NoStorage (nullptr)
  metadata_,              \* the BagMetadata held
  file_paths_,            \* the segment paths to scan
  current_file_iterator_, \* index into file_paths_ (0: never set)
  topics_metadata_,       \* the TopicMetadata list
  last                    \* observation of the last call: what it was given,
                          \* what it threw, what it logged

vars == <<storage_, metadata_, file_paths_, current_file_iterator_,
          topics_metadata_, last>>

----------------------------------------------------------------------------
(* Bounds of the model. *)

MaxTopics == 2
MaxRecords == 2
MaxPaths == 2

----------------------------------------------------------------------------
(* Paths (rcpputils::fs::path): a sequence of components; an absolute path *)
(* starts with the root component "/".                                     *)

Root == "/"

is_absolute(p) == Len(p) > 0 /\ p[1] = Root

parent_path(p) ==
  IF Len(p) = 0 THEN <<>>
  ELSE IF Len(p) = 1 THEN (IF is_absolute(p) THEN <<Root>> ELSE <<".">>)
  ELSE SubSeq(p, 1, Len(p) - 1)

(* The file system as open() sees it: the kind of each path.               *)
exists(fs, p) == p \in DOMAIN fs /\ fs[p] # "none"

is_directory(fs, p) == p \in DOMAIN fs /\ fs[p] = "dir"

----------------------------------------------------------------------------
(* Exceptions, as [type, what]. *)

NoError == [type |-> "none", what |-> ""]

BaseFolderMissing ==
  [type |-> "invalid_argument", what |-> "base folder does not exist"]

BaseFolderNotDirectory ==
  [type |-> "invalid_argument", what |-> "base folder has to be a directory"]

NoStorageInitialized ==
  [type |-> "runtime_error", what |-> "No storage could be initialized. Abort"]

ReindexCalled ==
  [type |-> "runtime_error", what |-> "Successfully called Reindex!"]

InconsistentFormat == [type |-> "InconsistentFormatError", what |-> ""]

UnsupportedConversion == [type |-> "UnsupportedConversionError", what |-> ""]

WarnNone == ""
WarnNoFilePaths == "No file paths were found in metadata."
WarnNoTopics == "No topics were listed in metadata."

----------------------------------------------------------------------------
(* details::resolve_relative_paths: the exception it throws (NoError when  *)
(* it returns) and the paths it returns.                                   *)

ResolveBaseAlwaysFolder(base_folder, version) == base_folder

ResolveBase(base_folder, version) ==
  IF version < 4 THEN parent_path(base_folder) ELSE base_folder

ResolveErrorOfBaseFolder(fs, base_folder, version) ==
  IF ~exists(fs, base_folder) THEN BaseFolderMissing
  ELSE IF ~is_directory(fs, base_folder) THEN BaseFolderNotDirectory
  ELSE NoError

ResolveError(fs, base_folder, version) ==
  LET base_path == ResolveBase(base_folder, version)
  IN  IF ~exists(fs, base_path) THEN BaseFolderMissing
      ELSE IF ~is_directory(fs, base_path) THEN BaseFolderNotDirectory
      ELSE NoError

ResolveJoiningFileNames(base_folder, relative_files, version) ==
  LET base_path == ResolveBase(base_folder, version)
  IN  [i \in 1..Len(relative_files) |->
         IF is_absolute(relative_files[i]) THEN relative_files[i]
         ELSE base_path \o <<relative_files[i][Len(relative_files[i])]>>]

resolve_relative_paths(base_folder, relative_files, version) ==
  LET base_path == ResolveBase(base_folder, version)
  IN  [i \in 1..Len(relative_files) |->
         IF is_absolute(relative_files[i]) THEN relative_files[i]
         ELSE base_path \o relative_files[i]]

----------------------------------------------------------------------------
(* rosbag2_storage::BagMetadata, TopicInformation, TopicMetadata. *)

EmptyMetadata ==
  [version |-> 4, relative_file_paths |-> <<>>,
   topics_with_message_count |-> <<>>, starting_time |-> 0, duration |-> 0]

topic_metadata(info) ==
  [name |-> info.name, serialization_format |-> info.serialization_format]

NoStorage == [open |-> FALSE]

(* storage_factory_->open_read_only(path, storage_id): a handle on the     *)
(* backend at path, or nullptr.  The handle carries the records the        *)
(* backend would iterate.                                                  *)
open_read_only(in, path) ==
  IF in.factory_ok
    THEN [open |-> TRUE, path |-> path, records |-> in.records]
    ELSE NoStorage

----------------------------------------------------------------------------
(* SequentialReindexer::fill_topics_metadata. *)

NotOpenIllegalState ==
  [type |-> "IllegalStateException",
   what |-> "Bag is not open. Call open() before reading."]

FillTopicsError(storage) ==
  IF storage = NoStorage THEN NotOpenIllegalState ELSE NoError

fill_topics_metadata(metadata) ==
  [i \in 1..Len(metadata.topics_with_message_count) |->
     topic_metadata(metadata.topics_with_message_count[i])]

(* check_topics_serialization_formats and                                  *)
(* check_converter_serialization_format are called by open() and defined   *)
(* outside the file: the ConsistencyChecker of the specification.          *)

check_topics_serialization_formats(topics) ==
  IF \E i \in 1..Len(topics) :
       topics[i].serialization_format # topics[1].serialization_format
    THEN InconsistentFormat
    ELSE NoError

check_converter_serialization_format(converter_format, storage_format, converters) ==
  IF /\ converter_format # ""
     /\ converter_format # storage_format
     /\ <<storage_format, converter_format>> \notin converters
    THEN UnsupportedConversion
    ELSE NoError

----------------------------------------------------------------------------
(* SequentialReindexer::open.  OpenPost is the reindexer after the call    *)
(* with input in: its fields, the exception thrown (NoError: it returned), *)
(* the warning logged and the path the storage factory was asked for.      *)

NoCall == <<"no call">>

Post(storage, metadata, file_paths, iterator, topics_metadata, thrown, warn, asked) ==
  [storage |-> storage, metadata |-> metadata, file_paths |-> file_paths,
   iterator |-> iterator, topics_metadata |-> topics_metadata,
   thrown |-> thrown, warn |-> warn, asked |-> asked]

(* What is observed of a call: the exception it threw and the warning it  *)
(* logged; and of the most recent open(): its arguments, the exception it  *)
(* threw, the path the storage factory was asked for and its answer.       *)
NoInput ==
  [uri |-> <<>>, metadata_file_exists |-> FALSE, md |-> EmptyMetadata,
   fs |-> <<>>, factory_ok |-> FALSE, records |-> <<>>,
   output_serialization_format |-> "", converters |-> {}]

ObservedOpen(in, p) ==
  [called |-> TRUE,
   uri |-> in.uri,
   metadata_file_exists |-> in.metadata_file_exists,
   output_serialization_format |-> in.output_serialization_format,
   converters |-> in.converters,
   factory_ok |-> in.factory_ok,
   md |-> in.md,
   asked |-> p.asked,
   thrown |-> p.thrown]

NeverOpened ==
  [ObservedOpen(NoInput, [asked |-> NoCall, thrown |-> NoError])
     EXCEPT !.called = FALSE]

Observed(op, opened, p) ==
  [op |-> op, thrown |-> p.thrown, warn |-> p.warn, opened |-> opened,
   repeated |-> (op = "reindex" /\ last.op = "reindex")]

NullStorageErrorIgnored(storage) == NoError

(* if (!storage_) throw std::runtime_error{...} *)
NullStorageError(storage) ==
  IF storage = NoStorage THEN NoStorageInitialized ELSE NoError

OpenChecksConverterOnly(in, topics) ==
  check_converter_serialization_format(
    in.output_serialization_format, topics[1].serialization_format,
    in.converters)

OpenChecksTopicsOnly(in, topics) ==
  check_topics_serialization_formats(topics)

(* check_topics_serialization_formats(topics);                             *)
(* check_converter_serialization_format(output format, topics[0] format)   *)
OpenChecks(in, topics) ==
  LET e1 == check_topics_serialization_formats(topics)
      e2 == check_converter_serialization_format(
              in.output_serialization_format,
              topics[1].serialization_format,
              in.converters)
  IN  IF e1 # NoError THEN e1 ELSE e2

OpenTailNoTopicsThrows(in, storage, metadata, file_paths, iterator, asked) ==
  LET topics == metadata.topics_with_message_count
  IN  IF topics = <<>>
        THEN Post(storage, metadata, file_paths, iterator, topics_metadata_,
                  NoStorageInitialized, WarnNone, asked)
      ELSE Post(storage, metadata, file_paths, iterator,
                fill_topics_metadata(metadata),
                OpenChecks(in, topics), WarnNone, asked)

(* open() from `auto topics = ...` on, with the fields as the branch       *)
(* before it left them.                                                    *)
OpenTail(in, storage, metadata, file_paths, iterator, asked) ==
  LET topics == metadata.topics_with_message_count
  IN  IF topics = <<>>
        THEN Post(storage, metadata, file_paths, iterator, topics_metadata_,
                  NoError, WarnNoTopics, asked)
      ELSE IF FillTopicsError(storage) # NoError
        THEN Post(storage, metadata, file_paths, iterator, topics_metadata_,
                  FillTopicsError(storage), WarnNone, asked)
      ELSE Post(storage, metadata, file_paths, iterator,
                fill_topics_metadata(metadata),
                OpenChecks(in, topics), WarnNone, asked)

OpenWithIndexDefaultVersion(in) ==
  LET md == in.md
      err == ResolveError(in.fs, in.uri, EmptyMetadata.version)
      fp == resolve_relative_paths(in.uri, md.relative_file_paths,
                                   EmptyMetadata.version)
      st == open_read_only(in, fp[1])
  IN  IF md.relative_file_paths = <<>>
        THEN Post(storage_, md, file_paths_, current_file_iterator_,
                  topics_metadata_, NoError, WarnNoFilePaths, NoCall)
      ELSE IF err # NoError
        THEN Post(storage_, md, file_paths_, current_file_iterator_,
                  topics_metadata_, err, WarnNone, NoCall)
      ELSE IF NullStorageError(st) # NoError
        THEN Post(st, md, fp, 1, topics_metadata_,
                  NullStorageError(st), WarnNone, fp[1])
      ELSE OpenTail(in, st, md, fp, 1, fp[1])

(* The branch of open() for a bag with a metadata file. *)
OpenWithIndex(in) ==
  LET md == in.md
      err == ResolveError(in.fs, in.uri, md.version)
      fp == resolve_relative_paths(in.uri, md.relative_file_paths, md.version)
      st == open_read_only(in, fp[1])
  IN  IF md.relative_file_paths = <<>>
        THEN Post(storage_, md, file_paths_, current_file_iterator_,
                  topics_metadata_, NoError, WarnNoFilePaths, NoCall)
      ELSE IF err # NoError
        THEN Post(storage_, md, file_paths_, current_file_iterator_,
                  topics_metadata_, err, WarnNone, NoCall)
      ELSE IF NullStorageError(st) # NoError
        THEN Post(st, md, fp, 1, topics_metadata_,
                  NullStorageError(st), WarnNone, fp[1])
      ELSE OpenTail(in, st, md, fp, 1, fp[1])

OpenWithoutIndexStaleIterator(in) ==
  LET st == open_read_only(in, in.uri)
      md == in.md
  IN  IF NullStorageError(st) # NoError
        THEN Post(st, metadata_, file_paths_, current_file_iterator_,
                  topics_metadata_, NullStorageError(st), WarnNone, in.uri)
      ELSE IF md.relative_file_paths = <<>>
        THEN Post(st, md, file_paths_, current_file_iterator_,
                  topics_metadata_, NoError, WarnNoFilePaths, in.uri)
      ELSE OpenTail(in, st, md, md.relative_file_paths,
                    current_file_iterator_, in.uri)

(* The branch of open() for a bag without one: the storage is asked. *)
OpenWithoutIndex(in) ==
  LET st == open_read_only(in, in.uri)
      md == in.md
  IN  IF NullStorageError(st) # NoError
        THEN Post(st, metadata_, file_paths_, current_file_iterator_,
                  topics_metadata_, NullStorageError(st), WarnNone, in.uri)
      ELSE IF md.relative_file_paths = <<>>
        THEN Post(st, md, file_paths_, current_file_iterator_,
                  topics_metadata_, NoError, WarnNoFilePaths, in.uri)
      ELSE OpenTail(in, st, md, md.relative_file_paths, 1, in.uri)

OpenPost(in) ==
  IF in.metadata_file_exists THEN OpenWithIndex(in) ELSE OpenWithoutIndex(in)

open(in) ==
  LET p == OpenPost(in)
  IN  /\ storage_' = p.storage
      /\ metadata_' = p.metadata
      /\ file_paths_' = p.file_paths
      /\ current_file_iterator_' = p.iterator
      /\ topics_metadata_' = p.topics_metadata
      /\ last' = Observed("open", ObservedOpen(in, p), p)

----------------------------------------------------------------------------
(* SequentailReindexer::reindex: the body throws, whatever the state; the  *)
(* call of init_metadata() is commented out.                               *)

CountOf(records, name) ==
  Cardinality({i \in DOMAIN records : records[i].topic = name})

(* nanoseconds::max(), the "unbounded future" (the largest time of the     *)
(* model's integers).                                                      *)
NanosecondsMax == 2147483647

(* strip_parent_path is declared outside the file: by its name, the path   *)
(* without the folders before its last component.                          *)
strip_parent_path(path) == <<path[Len(path)]>>

(* SequentialReindexer::init_metadata: the metadata it would assign to     *)
(* metadata_.  Nothing calls it.                                           *)
init_metadata ==
  [EmptyMetadata EXCEPT
     !.starting_time = NanosecondsMax,
     !.relative_file_paths = <<strip_parent_path(storage_.path)>>]

ReindexPostInitMetadata ==
  Post(storage_,
       IF storage_ = NoStorage THEN metadata_ ELSE init_metadata,
       file_paths_, current_file_iterator_, topics_metadata_,
       ReindexCalled, WarnNone, NoCall)

ReindexPostAccumulating ==
  LET counted ==
        [i \in DOMAIN metadata_.topics_with_message_count |->
           [metadata_.topics_with_message_count[i] EXCEPT
              !.message_count =
                 @ + (IF storage_ = NoStorage THEN 0
                      ELSE CountOf(storage_.records,
                                   metadata_.topics_with_message_count[i].name))]]
  IN  Post(storage_, [metadata_ EXCEPT !.topics_with_message_count = counted],
           file_paths_, current_file_iterator_, topics_metadata_,
           ReindexCalled, WarnNone, NoCall)

ReindexPost ==
  Post(storage_, metadata_, file_paths_, current_file_iterator_,
       topics_metadata_, ReindexCalled, WarnNone, NoCall)

reindex ==
  LET p == ReindexPost
  IN  /\ storage_' = p.storage
      /\ metadata_' = p.metadata
      /\ file_paths_' = p.file_paths
      /\ current_file_iterator_' = p.iterator
      /\ topics_metadata_' = p.topics_metadata
      /\ last' = Observed("reindex", last.opened, p)

----------------------------------------------------------------------------
(* reset() is declared outside the file: it closes the reindexer,          *)
(* releasing the backend handle.  The destructor calls it, and so does the *)
(* destructor of the facade before it destroys the reindexer it owns.      *)

ResetPost ==
  Post(NoStorage, metadata_, file_paths_, current_file_iterator_,
       topics_metadata_, NoError, WarnNone, NoCall)

(* What is observed of a closing call: the call, whether a handle was held *)
(* when it was made, and the call it follows.                              *)
ObservedClose(op, p) ==
  [op |-> op, thrown |-> p.thrown, warn |-> p.warn, opened |-> last.opened,
   repeated |-> FALSE, held |-> (storage_ # NoStorage), after |-> last.op]

Closes(op, p) ==
  /\ storage_' = p.storage
  /\ metadata_' = p.metadata
  /\ file_paths_' = p.file_paths
  /\ current_file_iterator_' = p.iterator
  /\ topics_metadata_' = p.topics_metadata
  /\ last' = ObservedClose(op, p)

reset == Closes("reset", ResetPost)

DestructorWithoutReset ==
  Post(storage_, metadata_, file_paths_, current_file_iterator_,
       topics_metadata_, NoError, WarnNone, NoCall)

(* SequentialReindexer::~SequentialReindexer() { reset(); } *)
DestructorPost == ResetPost

destroy == Closes("~SequentialReindexer", DestructorPost)

(* Reader::~Reader() { reader_impl_->reset(); }, then reader_impl_ is      *)
(* destroyed: a reset() of a reindexer already reset.                      *)
FacadeDestructorPost == [DestructorPost EXCEPT !.storage = ResetPost.storage]

destroy_facade == Closes("~Reader", FacadeDestructorPost)

Destroyed == last.op \in {"~SequentialReindexer", "~Reader"}

----------------------------------------------------------------------------
(* What the collaborators may answer to one open(). *)

BagUri == <<Root, "bags", "talker">>

Formats == {"cdr", "ros1"}

TopicNames == <<"t1", "t2", "t3">>

(* Topic lists of at most MaxTopics topics; the first topic is stored as   *)
(* "cdr" (the requested output format ranges over both formats).           *)
TopicLists ==
  UNION {{[i \in 1..n |->
             [name |-> TopicNames[i], serialization_format |-> f[i],
              message_count |-> 1]] :
            f \in {g \in [1..n -> Formats] : n = 0 \/ g[1] = "cdr"}}
         : n \in 0..MaxTopics}

RelativeSegment == <<"talker_0.db3">>
AbsoluteSegment == <<Root, "data", "talker_1.db3">>

SegmentLists == {<<>>, <<RelativeSegment, AbsoluteSegment>>}

Metadatas(versions) ==
  {[version |-> v, relative_file_paths |-> fp,
    topics_with_message_count |-> t, starting_time |-> 12, duration |-> 1] :
     v \in versions, fp \in SegmentLists, t \in TopicLists}

AllDirectories(uri) == [p \in {uri, parent_path(uri)} |-> "dir"]

FileSystems(uri) ==
  {[p \in {uri, parent_path(uri)} |-> IF p = uri THEN k[1] ELSE k[2]] :
     k \in {<<"dir", "dir">>, <<"none", "dir">>, <<"file", "dir">>}}

Converters == {{}, {<<"cdr", "ros1">>}}

Records == [topic : {"t1", "t2"}, time_stamp : {10, 14}]

RecordLists == UNION {[1..n -> Records] : n \in 0..MaxRecords}

(* An answer open() never asks for is left at its default: the file system *)
(* is looked at only to resolve the paths of an index, the factory is      *)
(* asked only once the paths are resolved, the backend's metadata and      *)
(* records exist only with a handle, and the converter factory is asked    *)
(* only for a conversion.                                                  *)
AsksFileSystem(in) ==
  in.metadata_file_exists /\ in.md.relative_file_paths # <<>>

AsksFactory(in) ==
  \/ ~in.metadata_file_exists
  \/ /\ in.md.relative_file_paths # <<>>
     /\ ResolveError(in.fs, in.uri, in.md.version) = NoError

HasMetadata(in) ==
  in.metadata_file_exists \/ in.factory_ok

AsksConverter(in) ==
  LET topics == in.md.topics_with_message_count
  IN  /\ AsksFactory(in) /\ in.factory_ok
      /\ in.md.relative_file_paths # <<>>
      /\ topics # <<>>
      /\ check_topics_serialization_formats(topics) = NoError
      /\ in.output_serialization_format \notin {"", topics[1].serialization_format}

Canonical(in) ==
  /\ AsksFileSystem(in) \/ in.fs = AllDirectories(in.uri)
  /\ AsksFactory(in) \/ in.factory_ok
  /\ HasMetadata(in) \/ in.md = EmptyMetadata
  /\ (AsksFactory(in) /\ in.factory_ok) \/ in.records = <<>>
  /\ AsksConverter(in) \/ in.converters = {}

InputsOver(indexed, metadatas, filesystems, records, formats) ==
  {in \in [uri : {BagUri},
           metadata_file_exists : indexed,
           md : metadatas \cup {EmptyMetadata},
           fs : filesystems \cup {AllDirectories(BagUri)},
           factory_ok : BOOLEAN,
           records : records \cup {<<>>},
           output_serialization_format : formats,
           converters : Converters] : Canonical(in)}

OpenInputs ==
  InputsOver(BOOLEAN, Metadatas({4}), FileSystems(BagUri), {},
             {""} \cup Formats)

(* For the scan: indexed bags with segments and consistent topics, over     *)
(* every backend content of at most MaxRecords records.                    *)
ScanMetadatas ==
  {md \in Metadatas({4}) :
     /\ md.relative_file_paths # <<>>
     /\ check_topics_serialization_formats(md.topics_with_message_count) = NoError}

ScanInputs == InputsOver({TRUE}, ScanMetadatas, {}, RecordLists, {""})

----------------------------------------------------------------------------

Init ==
  /\ storage_ = NoStorage
  /\ metadata_ = EmptyMetadata
  /\ file_paths_ = <<>>
  /\ current_file_iterator_ = 0
  /\ topics_metadata_ = <<>>
  /\ last = [op |-> "none", thrown |-> NoError, warn |-> WarnNone,
             opened |-> NeverOpened, repeated |-> FALSE]

Next ==
  \/ \E in \in OpenInputs : open(in)
  \/ reindex

Spec == Init /\ [][Next]_vars

NextScan ==
  \/ \E in \in ScanInputs : open(in)
  \/ reindex

SpecScan == Init /\ [][NextScan]_vars

(* A backend whose record stream ends in the middle of a record: the last  *)
(* element stands for the record that is cut off.                          *)
Truncated == [topic |-> "", time_stamp |-> 0]

CorruptRecordLists == {r \o <<Truncated>> : r \in RecordLists}

CorruptInputs ==
  InputsOver({TRUE}, ScanMetadatas, {}, CorruptRecordLists, {""})

NextCorrupt ==
  \/ \E in \in CorruptInputs : open(in)
  \/ reindex

SpecCorrupt == Init /\ [][NextCorrupt]_vars

(* An index as ScanMetadatas has it, and the same index with other message *)
(* counts, starting_time and duration.                                     *)
StaleIndex(md) ==
  [md EXCEPT
     !.topics_with_message_count =
        [i \in DOMAIN md.topics_with_message_count |->
           [md.topics_with_message_count[i] EXCEPT !.message_count = @ + 1]],
     !.starting_time = @ - 1,
     !.duration = @ + 1]

RerunMetadatas == ScanMetadatas \cup {StaleIndex(md) : md \in ScanMetadatas}

RerunInputs == InputsOver({TRUE}, RerunMetadatas, {}, RecordLists, {""})

NextRerun ==
  \/ \E in \in RerunInputs : open(in)
  \/ reindex

SpecRerun == Init /\ [][NextRerun]_vars

(* The life of a reindexer: opened, reindexed and closed any number of     *)
(* times, until it is destroyed, by itself or with the facade owning it.   *)
(* Nothing is called on a reindexer that is destroyed.  The calls of open() *)
(* are those of OpenInputs that ask for no conversion or for one from the  *)
(* format of the store.                                                    *)
LifeInputs ==
  {in \in OpenInputs : in.output_serialization_format \in {"", "ros1"}}

NextLife ==
  \/ ~Destroyed /\ \E in \in LifeInputs : open(in)
  \/ ~Destroyed /\ reindex
  \/ ~Destroyed /\ reset
  \/ ~Destroyed /\ destroy
  \/ ~Destroyed /\ destroy_facade

SpecLife == Init /\ [][NextLife]_vars

----------------------------------------------------------------------------
(* details::resolve_relative_paths on its own: called with a base folder,  *)
(* a list of files and a version, in a file system.  The call is recorded  *)
(* in last: its arguments, the exception thrown, and the paths returned    *)
(* (none when it throws).                                                  *)

ResolvePost(fs, base_folder, relative_files, version) ==
  LET err == ResolveError(fs, base_folder, version)
  IN  [fs |-> fs, base_folder |-> base_folder,
       relative_files |-> relative_files, version |-> version,
       thrown |-> err,
       returned |-> (err = NoError),
       paths |-> IF err = NoError
                   THEN resolve_relative_paths(base_folder, relative_files, version)
                   ELSE <<>>]

resolve(fs, base_folder, relative_files, version) ==
  LET p == ResolvePost(fs, base_folder, relative_files, version)
  IN  /\ last' = [op |-> "resolve_relative_paths", thrown |-> p.thrown,
                  warn |-> WarnNone, opened |-> last.opened,
                  repeated |-> FALSE, call |-> p]
      /\ UNCHANGED <<storage_, metadata_, file_paths_,
                     current_file_iterator_, topics_metadata_>>

BaseFolders == {BagUri, parent_path(BagUri)}

Versions == {3, 4, 5}

PrefixedSegment == <<"talker", "talker_0.db3">>
SegmentInBag == BagUri \o <<"talker_2.db3">>

ResolvePaths ==
  {RelativeSegment, PrefixedSegment, AbsoluteSegment, SegmentInBag}

ResolveFileLists == UNION {[1..n -> ResolvePaths] : n \in 0..MaxPaths}

(* The kinds of the base folder and of its parent: a folder that exists    *)
(* lies in a directory.                                                    *)
ResolveFileSystems(base_folder) ==
  {[p \in {base_folder, parent_path(base_folder)} |->
      IF p = base_folder THEN k[1] ELSE k[2]] :
     k \in {<<"dir", "dir">>, <<"file", "dir">>, <<"none", "dir">>,
            <<"none", "file">>, <<"none", "none">>}}

NextResolve ==
  \E base_folder \in BaseFolders, version \in Versions,
     relative_files \in ResolveFileLists :
    \E fs \in ResolveFileSystems(base_folder) :
      resolve(fs, base_folder, relative_files, version)

SpecResolve == Init /\ [][NextResolve]_vars

----------------------------------------------------------------------------
(* Bags of one or more segments, in any order, written with the layout of  *)
(* version 3 (files prefixed with the bag's folder name) or later.         *)

SegmentPaths == {RelativeSegment, PrefixedSegment, AbsoluteSegment}

OrderedSegmentLists == UNION {[1..n -> SegmentPaths] : n \in 1..MaxPaths}

SegmentMetadatas ==
  {[version |-> v, relative_file_paths |-> fp,
    topics_with_message_count |-> t, starting_time |-> 12, duration |-> 1] :
     v \in Versions, fp \in OrderedSegmentLists,
     t \in {l \in TopicLists : Len(l) <= 1}}

(* The calls of open() on such a bag that get a handle: the base of the     *)
(* resolution is a directory and the factory opens the backend.            *)
SegmentInputs ==
  {in \in InputsOver(BOOLEAN, SegmentMetadatas, ResolveFileSystems(BagUri),
                     {}, {""}) :
     /\ in.md # EmptyMetadata
     /\ in.factory_ok
     /\ ResolveError(in.fs, in.uri, in.md.version) = NoError}

NextSegments ==
  \/ \E in \in SegmentInputs : open(in)
  \/ reindex

SpecSegments == Init /\ [][NextSegments]_vars

----------------------------------------------------------------------------
(* Two sources opened by one reindexer, in any order and any number of     *)
(* times: two bags in one folder, each with a topic of its own.            *)

OtherUri == <<Root, "bags", "listener">>

SourceUris == {BagUri, OtherUri}

TopicsOf(uri) ==
  <<[name |-> IF uri = BagUri THEN "/chatter" ELSE "/heard",
     serialization_format |-> "cdr", message_count |-> 1]>>

SourceMetadatas ==
  {[version |-> 4, relative_file_paths |-> fp,
    topics_with_message_count |-> t, starting_time |-> 12, duration |-> 1] :
     fp \in SegmentLists, t \in {<<>>} \cup {TopicsOf(uri) : uri \in SourceUris}}

SourceInputs ==
  {in \in [uri : SourceUris,
           metadata_file_exists : BOOLEAN,
           md : SourceMetadatas \cup {EmptyMetadata},
           fs : UNION {FileSystems(uri) : uri \in SourceUris},
           factory_ok : BOOLEAN,
           records : {<<>>},
           output_serialization_format : {""},
           converters : {{}}] :
     /\ in.uri \in DOMAIN in.fs
     /\ in.md.topics_with_message_count \in {<<>>, TopicsOf(in.uri)}
     /\ Canonical(in)}

NextSources == \E in \in SourceInputs : open(in)

SpecSources == Init /\ [][NextSources]_vars

----------------------------------------------------------------------------
(* The vocabulary of the claims. *)

(* The errors of the specification, as the exceptions the code throws. *)
IsOpenError(e) == e = NoStorageInitialized

IsNotFoundError(e) == e \in {BaseFolderMissing, BaseFolderNotDirectory}

(* "\throws runtime_error if the Reader is not open" *)
IsNotOpenError(e) == e.type = "runtime_error"

OpenSucceeded == last.opened.called /\ last.opened.thrown = NoError

IsOpen == OpenSucceeded /\ storage_ # NoStorage

(* The factory was asked by the last open() and gave a handle. *)
GotHandle == last.opened.asked # NoCall /\ last.opened.factory_ok

(* The last open() read an index or got the backend's metadata. *)
Loaded ==
  last.opened.called /\ (last.opened.metadata_file_exists \/ GotHandle)

LoadedPaths == last.opened.md.relative_file_paths

LoadedTopics == last.opened.md.topics_with_message_count

(* The error of the steps of open() before the topics are looked at: of    *)
(* the factory if it was asked, of the path resolution otherwise.          *)
IsEarlierError(e) ==
  IF last.opened.asked # NoCall THEN IsOpenError(e) ELSE IsNotFoundError(e)

Mixed(topics) ==
  \E i, j \in DOMAIN topics :
    topics[i].serialization_format # topics[j].serialization_format

----------------------------------------------------------------------------
(* C1: after an open() that fails with an error the reindexer holds no     *)
(* backend handle, whatever it held before the call.                       *)
OpenFailureLeavesClosed ==
  (last.op = "open" /\ last.thrown # NoError) => storage_ = NoStorage

(* C2: reindex() called when no open() has succeeded fails with            *)
(* NotOpenError; called in state Open it does not fail with NotOpenError.  *)
ReindexRequiresOpen ==
  last.op = "reindex" =>
    /\ ~OpenSucceeded => IsNotOpenError(last.thrown)
    /\ IsOpen => ~IsNotOpenError(last.thrown)

(* C3: after reindex() in state Open the topics of the metadata are        *)
(* exactly the topics of the backend's records, each with the number of    *)
(* its records as its count.                                               *)
ReindexCountsRecords ==
  (last.op = "reindex" /\ IsOpen) =>
    LET topics == metadata_.topics_with_message_count
        records == storage_.records
    IN  /\ {topics[i].name : i \in DOMAIN topics}
             = {records[i].topic : i \in DOMAIN records}
        /\ \A i \in DOMAIN topics :
             topics[i].message_count = CountOf(records, topics[i].name)

(* C4: after reindex() in state Open every record's timestamp lies between *)
(* starting_time and the end of the recording; over zero records           *)
(* starting_time is the "unbounded future" and the duration is zero.       *)
ReindexTimeSpan ==
  (last.op = "reindex" /\ IsOpen) =>
    LET records == storage_.records
        starting_time == metadata_.starting_time
        ending_time == metadata_.starting_time + metadata_.duration
    IN  IF records # <<>>
          THEN \A i \in DOMAIN records :
                 /\ starting_time <= records[i].time_stamp
                 /\ records[i].time_stamp <= ending_time
          ELSE starting_time = NanosecondsMax /\ metadata_.duration = 0

OpenSuccessHoldsHandle ==
  (last.op = "open" /\ last.thrown = NoError) =>
    /\ storage_ # NoStorage
    /\ file_paths_ # <<>>
    /\ current_file_iterator_ = 1

(* C6, amended: whenever open() returns without error and the metadata it  *)
(* loaded lists a segment, the reindexer holds the handle that call        *)
(* obtained (on the first resolved segment with an index, on the uri       *)
(* without), and is positioned at the first of as many segment paths as    *)
(* the metadata lists.                                                     *)
OpenSuccessWithSegmentsHoldsHandle ==
  (last.op = "open" /\ last.thrown = NoError /\ LoadedPaths # <<>>) =>
    /\ storage_ # NoStorage
    /\ storage_.path = last.opened.asked
    /\ Len(file_paths_) = Len(LoadedPaths)
    /\ current_file_iterator_ = 1
    /\ storage_.path = IF last.opened.metadata_file_exists
                         THEN file_paths_[current_file_iterator_]
                         ELSE last.opened.uri

OpenedWithSegments ==
  /\ last.op = "open" /\ last.thrown = NoError
  /\ LoadedPaths # <<>> /\ LoadedTopics # <<>>
  /\ storage_ # NoStorage

(* C7 as stated: whenever the metadata open() loaded has two topics of     *)
(* different serialization formats, whatever its relative_file_paths, an   *)
(* open() that gets past the path resolution and the storage factory fails *)
(* with InconsistentFormatError, and no later reindex() succeeds.          *)
MixedFormatsRejected ==
  (Loaded /\ Mixed(LoadedTopics) /\ ~IsEarlierError(last.opened.thrown)) =>
    /\ last.opened.thrown = InconsistentFormat
    /\ last.op = "reindex" => last.thrown # NoError

(* C7, amended: whenever that metadata also lists a segment, open() fails: *)
(* with InconsistentFormatError once the factory gave a handle, with the   *)
(* NotFoundError or OpenError of the steps before otherwise; and no later  *)
(* reindex() succeeds.                                                     *)
MixedFormatsWithSegmentsRejected ==
  (Loaded /\ Mixed(LoadedTopics) /\ LoadedPaths # <<>>) =>
    /\ IF GotHandle THEN last.opened.thrown = InconsistentFormat
       ELSE IsEarlierError(last.opened.thrown)
    /\ last.op = "reindex" => last.thrown # NoError

MixedFormatsSeen ==
  /\ last.op = "open" /\ Loaded /\ Mixed(LoadedTopics) /\ LoadedPaths # <<>>
  /\ last.thrown = InconsistentFormat

(* The requested output format is not empty, differs from the format of    *)
(* the store and has no converter.                                         *)
ConversionUnsupported ==
  /\ Loaded /\ LoadedTopics # <<>>
  /\ last.opened.output_serialization_format
       \notin {"", LoadedTopics[1].serialization_format}
  /\ <<LoadedTopics[1].serialization_format,
       last.opened.output_serialization_format>> \notin last.opened.converters

ConversionNotAsked ==
  /\ Loaded /\ LoadedTopics # <<>>
  /\ last.opened.output_serialization_format
       \in {"", LoadedTopics[1].serialization_format}

(* C8 as stated: whenever the conversion asked for is unsupported, an      *)
(* open() that gets past the path resolution, the storage factory and the  *)
(* comparison of the topics' formats fails with                            *)
(* UnsupportedConversionError; and open() never fails for this reason when *)
(* the requested format is empty or the format of the store.               *)
UnsupportedConversionRejected ==
  last.op = "open" =>
    /\ (ConversionUnsupported /\ ~Mixed(LoadedTopics)
          /\ ~IsEarlierError(last.thrown)) =>
         last.thrown = UnsupportedConversion
    /\ ConversionNotAsked => last.thrown # UnsupportedConversion

(* C8, amended: when the metadata lists a segment and its topics, open()   *)
(* never returns successfully with an unsupported conversion asked for: it *)
(* fails with UnsupportedConversionError once the factory gave a handle    *)
(* and the topics agree on one format, with the error of the earlier step  *)
(* otherwise; and it never fails for this reason when the requested format *)
(* is empty or the format of the store.                                    *)
UnsupportedConversionWithSegmentsRejected ==
  last.op = "open" =>
    /\ (ConversionUnsupported /\ LoadedPaths # <<>>) =>
         IF ~GotHandle THEN IsEarlierError(last.thrown)
         ELSE IF Mixed(LoadedTopics) THEN last.thrown = InconsistentFormat
         ELSE last.thrown = UnsupportedConversion
    /\ ConversionNotAsked => last.thrown # UnsupportedConversion

UnsupportedConversionSeen ==
  /\ last.op = "open" /\ ConversionUnsupported /\ LoadedPaths # <<>>
  /\ last.thrown = UnsupportedConversion

(* C9: an open() whose call of open_read_only returns no handle fails with *)
(* OpenError at that call: asked for the first resolved segment with an    *)
(* index and for the uri without, it holds no handle, and the topic list   *)
(* is as it was before the call.                                           *)
NoHandleIsOpenError ==
  [][(last'.op = "open" /\ last'.opened.asked # NoCall
        /\ ~last'.opened.factory_ok) =>
       /\ IsOpenError(last'.thrown)
       /\ storage_' = NoStorage
       /\ topics_metadata_' = topics_metadata_
       /\ last'.opened.asked =
            IF last'.opened.metadata_file_exists
              THEN file_paths_'[1] ELSE last'.opened.uri]_vars

NoHandleWithIndex ==
  /\ last.op = "open" /\ last.opened.metadata_file_exists
  /\ last.opened.asked # NoCall /\ ~last.opened.factory_ok
  /\ LoadedTopics # <<>>
  /\ IsOpenError(last.thrown)

(* C10 as stated: when the loaded metadata has no file paths, or file      *)
(* paths and no topics, open() raises no OpenError; and unless the base    *)
(* folder of the index is missing it returns without error, logs a         *)
(* warning, and the metadata held has no file paths (no topics).           *)
EmptyCatalogIsNoError ==
  (last.op = "open" /\ Loaded
     /\ (LoadedPaths = <<>> \/ LoadedTopics = <<>>)) =>
    /\ ~IsOpenError(last.thrown)
    /\ ~IsNotFoundError(last.thrown) =>
         /\ last.thrown = NoError
         /\ last.warn # WarnNone
         /\ IF LoadedPaths = <<>> THEN metadata_.relative_file_paths = <<>>
            ELSE metadata_.topics_with_message_count = <<>>

(* C10, amended: with no file paths open() returns without error and warns *)
(* of it; with file paths and no topics it does so once the paths are      *)
(* resolved and the factory gave a handle, and fails with the              *)
(* NotFoundError or OpenError of those steps otherwise, without warning.   *)
(* The metadata held is the one loaded.                                    *)
EmptyCatalogIsNoErrorOnceOpened ==
  (last.op = "open" /\ Loaded
     /\ (LoadedPaths = <<>> \/ LoadedTopics = <<>>)) =>
    /\ metadata_ = last.opened.md
    /\ IF LoadedPaths = <<>>
         THEN last.thrown = NoError /\ last.warn = WarnNoFilePaths
       ELSE IF GotHandle
         THEN last.thrown = NoError /\ last.warn = WarnNoTopics
       ELSE last.warn = WarnNone /\ IsEarlierError(last.thrown)

OpenedWithoutTopics ==
  /\ last.op = "open" /\ last.opened.metadata_file_exists
  /\ LoadedPaths # <<>> /\ LoadedTopics = <<>>
  /\ last.thrown = NoError /\ last.warn = WarnNoTopics

----------------------------------------------------------------------------
(* PathResolver: details::resolve_relative_paths called on its own. *)

Resolved == last.op = "resolve_relative_paths"

(* The base of the specification: the parent of base_folder below layout   *)
(* version 4, base_folder itself from version 4 on.                        *)
BaseOf(base_folder, layout_version) ==
  IF layout_version >= 4 THEN base_folder
  ELSE SubSeq(base_folder, 1, Len(base_folder) - 1)

(* Stripping a base back off a path that lies under it. *)
StripBase(base_path, path) ==
  IF /\ Len(path) >= Len(base_path)
     /\ SubSeq(path, 1, Len(base_path)) = base_path
    THEN SubSeq(path, Len(base_path) + 1, Len(path))
    ELSE path

(* C11: when resolve returns, the paths returned are as many as the        *)
(* relative paths given, in their order: an absolute path unchanged, any   *)
(* other path p as base/p, the base being the parent of base_folder below  *)
(* version 4 and base_folder from version 4 on; they are determined by the *)
(* three arguments alone.                                                  *)
ResolveJoinsBase ==
  (Resolved /\ last.call.returned) =>
    LET given == last.call.relative_files
        base == BaseOf(last.call.base_folder, last.call.version)
    IN  /\ Len(last.call.paths) = Len(given)
        /\ \A i \in 1..Len(given) :
             last.call.paths[i] =
               IF given[i][1] = Root THEN given[i] ELSE base \o given[i]

ResolvedLegacyAndCurrent ==
  /\ Resolved /\ last.call.returned
  /\ last.call.version < 4
  /\ Len(last.call.relative_files) = MaxPaths
  /\ last.call.relative_files[1] = PrefixedSegment
  /\ last.call.relative_files[MaxPaths] = AbsoluteSegment
  /\ last.call.paths[1] = BagUri \o <<"talker_0.db3">>

(* C12 as stated: resolve fails with NotFoundError and returns no path     *)
(* whenever base_folder does not exist or is not a directory, whatever the *)
(* version.                                                                *)
ResolveRejectsBadBaseFolder ==
  (Resolved /\ ~is_directory(last.call.fs, last.call.base_folder)) =>
    /\ IsNotFoundError(last.call.thrown)
    /\ ~last.call.returned

(* C12, amended: resolve fails with NotFoundError and returns no path      *)
(* exactly when the base it joins against (base_folder from version 4 on,  *)
(* its parent below) does not exist or is not a directory; below version 4 *)
(* base_folder itself is not looked at.                                    *)
ResolveRejectsBadBase ==
  Resolved =>
    LET base == BaseOf(last.call.base_folder, last.call.version)
    IN  /\ IsNotFoundError(last.call.thrown) <=> ~is_directory(last.call.fs, base)
        /\ last.call.thrown = BaseFolderMissing <=> ~exists(last.call.fs, base)
        /\ IsNotFoundError(last.call.thrown) =>
             (~last.call.returned /\ last.call.paths = <<>>)
        /\ ~IsNotFoundError(last.call.thrown) =>
             (last.call.thrown = NoError /\ last.call.returned)

LegacyParentNotDirectory ==
  /\ Resolved /\ last.call.version < 4
  /\ last.call.relative_files # <<>>
  /\ last.call.thrown = BaseFolderNotDirectory
  /\ ~last.call.returned

----------------------------------------------------------------------------
(* C14: once reset() or a destructor (of the reindexer, or of the facade   *)
(* owning it) has completed, no backend handle is held, whatever state the *)
(* reindexer was in: never opened, open, or holding the handle a failed    *)
(* open() left, before or after a reindex() that failed.                   *)
DestructionReleasesHandle ==
  (last.op = "reset" \/ Destroyed) => storage_ = NoStorage

DestroyedHoldingAfterFailures ==
  /\ Destroyed
  /\ last.held
  /\ last.after = "reindex"
  /\ last.opened.thrown # NoError
  /\ storage_ = NoStorage

----------------------------------------------------------------------------
(* CorruptSegmentError of the specification; no exception of the code      *)
(* stands for it.                                                          *)
CorruptSegment == [type |-> "CorruptSegmentError", what |-> ""]

EndsMidRecord(records) ==
  records # <<>> /\ records[Len(records)] = Truncated

ScannedBefore(records) == SubSeq(records, 1, Len(records) - 1)

(* C15: a reindex() in state Open over a backend whose record stream ends  *)
(* mid-record reports CorruptSegmentError, and the metadata held is the    *)
(* partial result: the topics, counts and time span of exactly the records *)
(* before the failure.                                                     *)
ReindexReportsCorruptSegment ==
  (last.op = "reindex" /\ IsOpen /\ EndsMidRecord(storage_.records)) =>
    LET scanned == ScannedBefore(storage_.records)
        topics == metadata_.topics_with_message_count
    IN  /\ last.thrown = CorruptSegment
        /\ {topics[i].name : i \in DOMAIN topics}
             = {scanned[i].topic : i \in DOMAIN scanned}
        /\ \A i \in DOMAIN topics :
             topics[i].message_count = CountOf(scanned, topics[i].name)
        /\ \A i \in DOMAIN scanned :
             /\ metadata_.starting_time <= scanned[i].time_stamp
             /\ scanned[i].time_stamp
                  <= metadata_.starting_time + metadata_.duration

----------------------------------------------------------------------------
(* Two indexes that differ at most in message counts, starting_time and    *)
(* duration.                                                               *)
SameButCounts(md1, md2) ==
  /\ md1.version = md2.version
  /\ md1.relative_file_paths = md2.relative_file_paths
  /\ Len(md1.topics_with_message_count) = Len(md2.topics_with_message_count)
  /\ \A i \in DOMAIN md1.topics_with_message_count :
       topic_metadata(md1.topics_with_message_count[i])
         = topic_metadata(md2.topics_with_message_count[i])

(* C16: when a reindex() in state Open has ended and the same backend      *)
(* records and segment list are then opened with an index that differs     *)
(* only in message counts, starting_time and duration, the metadata a      *)
(* reindex() yields there is the metadata the first reindex() yielded.     *)
ReindexIgnoresLoadedCounts ==
  [][(/\ last.op = "reindex" /\ IsOpen
      /\ last'.op = "open" /\ IsOpen'
      /\ SameButCounts(last.opened.md, last'.opened.md)
      /\ last.opened.md # last'.opened.md
      /\ storage_' = storage_
      /\ file_paths_' = file_paths_) =>
       ReindexPost'.metadata = metadata_]_vars

----------------------------------------------------------------------------
(* Path p ends with the components of path q. *)
EndsWith(p, q) ==
  Len(p) >= Len(q) /\ SubSeq(p, Len(p) - Len(q) + 1, Len(p)) = q

OpenSetsSegmentList ==
  (last.op = "open" /\ last.thrown = NoError /\ LoadedPaths # <<>>) =>
    /\ Len(file_paths_) = Len(LoadedPaths)
    /\ current_file_iterator_ = 1
    /\ storage_ # NoStorage
    /\ IF last.opened.metadata_file_exists
         THEN /\ \A i \in DOMAIN LoadedPaths :
                   file_paths_[i] =
                     IF LoadedPaths[i][1] = Root THEN LoadedPaths[i]
                     ELSE BaseOf(last.opened.uri, last.opened.md.version)
                            \o LoadedPaths[i]
              /\ last.opened.asked = file_paths_[1]
              /\ storage_.path = file_paths_[1]
         ELSE /\ file_paths_ = LoadedPaths
              /\ metadata_.relative_file_paths = LoadedPaths
              /\ last.opened.asked = last.opened.uri
              /\ storage_.path = last.opened.uri

OpenedLegacyIndex ==
  /\ last.op = "open" /\ last.thrown = NoError
  /\ last.opened.metadata_file_exists
  /\ last.opened.md.version < 4
  /\ Len(LoadedPaths) > 1
  /\ LoadedPaths[1] = PrefixedSegment
  /\ storage_ # NoStorage
  /\ storage_.path = BagUri \o <<"talker_0.db3">>

----------------------------------------------------------------------------
(* The segment paths of the source the last open() was given: with an      *)
(* index its relative_file_paths resolved against the uri, without one the *)
(* paths the backend reported.                                             *)
SegmentsOfSource ==
  [i \in DOMAIN LoadedPaths |->
     IF last.opened.metadata_file_exists /\ LoadedPaths[i][1] # Root
       THEN BaseOf(last.opened.uri, last.opened.md.version) \o LoadedPaths[i]
       ELSE LoadedPaths[i]]

TopicsOfSource ==
  [i \in DOMAIN LoadedTopics |->
     [name |-> LoadedTopics[i].name,
      serialization_format |-> LoadedTopics[i].serialization_format]]

(* What the reindexer holds is of the source the last open() was given,    *)
(* or nothing: its metadata or none, its segment paths or none, its topics *)
(* or none, the handle that call obtained or none.                         *)
HoldsOnlyLastSource ==
  /\ Loaded => metadata_ = last.opened.md
  /\ ~Loaded => metadata_ = EmptyMetadata
  /\ file_paths_ \in {<<>>, SegmentsOfSource}
  /\ topics_metadata_ \in {<<>>, TopicsOfSource}
  /\ storage_ # NoStorage =>
       (GotHandle /\ storage_.path = last.opened.asked)

(* C19: once an open() on a source has returned, normally or with an       *)
(* error, after an open() on another source, whatever the reindexer holds  *)
(* is of the source just given, or nothing.                                *)
OpenDiscardsEarlierSource ==
  [][(/\ last'.op = "open"
      /\ last.opened.called
      /\ last'.opened.uri # last.opened.uri) =>
       HoldsOnlyLastSource']_vars

====
